---- MODULE Spec2Model ----
(***************************************************************************)
(* Model of the two asyncio broadcast servers of python-learning/          *)
(* web_sockets: 03_chat_server.py (chat_handler) and 05_counter_server.py  *)
(* (counter_handler).                                                      *)
(*                                                                         *)
(* One handler coroutine runs per connection on a single-threaded event    *)
(* loop, so the code between two awaits is one atomic step.  The awaits    *)
(* are: the initial send, `async for message in websocket`, and            *)
(* `await client.send(...)` inside the broadcast loop.  A send evaluates   *)
(* its argument and hands the frame to the transport when it is called,    *)
(* then suspends; when it resumes it returns, or raises ConnectionClosed   *)
(* if the target's transport has closed.                                   *)
(***************************************************************************)
EXTENDS Integers, Sequences, FiniteSets, TLC

\* ------------------------------------------------------------------ bounds
MaxConns == 3
MaxMsgs == 2

\* the websocket objects, numbered in order of arrival
Conn == 1..MaxConns

\* inbound texts the clients may send
Texts == {"hello"}
Commands == {"increment", "INCREMENT", "Reset", "status"}

VARIABLES
    server,             \* which program runs: "chat" or "counter"
    connected_clients,  \* the module-level list
    counter,            \* the module-level counter (counter server)
    pc,                 \* position of each handler coroutine
    client_id,          \* local client_id of each handler
    idx,                \* position of the list iterator of each handler's for loop
    client,             \* loop variable `client` of each handler (0: no loop running)
    message,            \* loop variable `message` of each handler
    open,               \* transport of the connection is open
    exc,                \* exception that ended the handler task, if any
    sent,               \* per connection: the frames written to it, in order
    nrecv,              \* number of inbound messages received so far
    bc,                 \* history: how many messages a handler has received
    snap,               \* history: registry members when that message was received
    failed,             \* history: targets whose send raised during that message
    newval,             \* history: counter value produced by that message
    incs,               \* history: increments processed per connection
    resets,             \* history: resets processed
    joinval,            \* history: value of the counter when a connection arrived
    removed             \* history: connections taken out of the list by a remove call

\* the client session (04_chat_client.py, 06_counter_client.py)
VARIABLES
    session,            \* position of chat_client() / counter_client()
    receive_task,       \* position of receive_messages()
    send_task,          \* position of send_messages() / send_commands()
    cancelled,          \* tasks on which task.cancel() was called
    ws_open,            \* the client's websocket is open
    wire,               \* lines written to the websocket, in order
    typed,              \* history: lines the user entered at the prompt, in order
    shown               \* number of inbound messages displayed

\* the Calculator object (pytest/01_basic_concepts/calculator.py)
VARIABLES
    history,            \* self.history
    returned,           \* value returned by the latest get_history()
    last_call,          \* history: the latest method call and how it ended
    before,             \* history: self.history when the latest call started
    completed,          \* history: calls that returned since the latest clear_history
    ncalls              \* number of method calls made

\* the users API (backend-learning/fastapi_postgres_backend)
VARIABLES
    users,              \* rows of table "users", in insertion order
    response,           \* the latest HTTP response
    stored_before,      \* history: the rows when the latest request arrived
    nreq                \* number of requests served

svars == <<server, connected_clients, counter, pc, client_id, idx, client,
           message, open, exc, sent, nrecv, bc, snap, failed, newval, incs, resets,
           joinval, removed>>
cvars == <<session, receive_task, send_task, cancelled, ws_open, wire, typed, shown>>
kvars == <<history, returned, last_call, before, completed, ncalls>>
uvars == <<users, response, stored_before, nreq>>

vars == <<svars, cvars, kvars, uvars>>

\* ------------------------------------------------------- list operations
Contains(s, x) == \E i \in 1..Len(s) : s[i] = x

IndexOf(s, x) == CHOOSE i \in 1..Len(s) : s[i] = x /\ \A j \in 1..(i-1) : s[j] # x

\* list.remove(x): drops the first occurrence, later items shift down
RemoveToEnd(s, x) ==
    LET i == IndexOf(s, x)
    IN [j \in 1..Len(s) |-> IF j < i THEN s[j] ELSE IF j < Len(s) THEN s[j+1] ELSE x]
Remove(s, x) ==
    LET i == IndexOf(s, x)
    IN [j \in 1..(Len(s)-1) |-> IF j < i THEN s[j] ELSE s[j+1]]

Members(s) == {s[i] : i \in 1..Len(s)}

\* connected_clients.append(websocket)
RegisterTwice(s, x) == Append(Append(s, x), x)
Register(s, x) == Append(s, x)

\* `if websocket in connected_clients: connected_clients.remove(websocket)`
Discard(s, x) == IF Contains(s, x) THEN Remove(s, x) ELSE s

\* -------------------------------------------------------------- messages
\* str.lower() on the inbound alphabets
LowerNone(m) == m
Lower(m) ==
    CASE m = "INCREMENT" -> "increment"
      [] m = "Reset"     -> "reset"
      [] m = "EXIT"      -> "exit"
      [] m = "Bye"       -> "bye"
      [] OTHER           -> m

WelcomeMsgWrongId(id) == [kind |-> "Welcome", v |-> id + 1, text |-> ""]
WelcomeMsg(id) == [kind |-> "Welcome", v |-> id, text |-> ""]
CurrentMsg(v) == [kind |-> "Current counter", v |-> v, text |-> ""]
ClientMsg(id, m) == [kind |-> "Client", v |-> id, text |-> m]
CounterMsg(v) == [kind |-> "Counter", v |-> v, text |-> ""]
ResetMsg == [kind |-> "Counter reset to 0", v |-> 0, text |-> ""]

\* first message sent to a new connection
HelloMsgStale(srv, id, ctr) ==
    IF srv = "chat" THEN WelcomeMsg(id) ELSE CurrentMsg(0)
HelloMsg(srv, id, ctr) ==
    IF srv = "chat" THEN WelcomeMsg(id) ELSE CurrentMsg(ctr)

\* the argument of client.send(...) in the broadcast loops, evaluated at the call
BroadcastMsgOld(srv, id, m, ctr) ==
    IF srv = "chat" THEN ClientMsg(id, m)
    ELSE IF Lower(m) = "increment" THEN CounterMsg(ctr - 1)
    ELSE ResetMsg
BroadcastMsg(srv, id, m, ctr) ==
    IF srv = "chat" THEN ClientMsg(id, m)
    ELSE IF Lower(m) = "increment" THEN CounterMsg(ctr)
    ELSE ResetMsg

\* a frame written to a connection, tagged with the handler and message that caused it
Entry(m, h, b) == [msg |-> m, from |-> h, bc |-> b]

\* ws.send(m) at the call: the frame is written if the transport is open
WriteTwice(log, isOpen, e) == IF isOpen THEN Append(Append(log, e), e) ELSE log
WriteFront(log, isOpen, e) == IF isOpen THEN <<e>> \o log ELSE log
Write(log, isOpen, e) == IF isOpen THEN Append(log, e) ELSE log

\* the initial `await websocket.send(...)` of a handler, at the call
GreetOmitted(log, srv, c, id, ctr) == log
Greet(log, srv, c, id, ctr) == Write(log, TRUE, Entry(HelloMsg(srv, id, ctr), c, 0))

\* ------------------------------------------------------------ the handlers
\* `if client != websocket` (chat); the counter server sends to every client
IsTargetAll(srv, cl, ws) == TRUE
IsTarget(srv, cl, ws) == srv = "counter" \/ cl # ws

\* counter += 1
IncrementLost(v) == IF v = 0 THEN 1 ELSE v
Increment(v) == v + 1

\* effect of a command on the counter
NewCounterElse(m, ctr) ==
    IF Lower(m) = "increment" THEN Increment(ctr)
    ELSE 0
NewCounter(m, ctr) ==
    IF Lower(m) = "increment" THEN Increment(ctr)
    ELSE IF Lower(m) = "reset" THEN 0
    ELSE ctr

\* does the inbound message start a broadcast loop
Broadcasts(srv, m) == srv = "chat" \/ Lower(m) \in {"increment", "reset"}

\* the list iterator: the next position after i whose item the loop body sends to
Targets(srv, L, i, ws) == {j \in (i+1)..Len(L) : IsTarget(srv, L[j], ws)}
NextIndex(srv, L, i, ws) ==
    CHOOSE j \in Targets(srv, L, i, ws) : \A k \in Targets(srv, L, i, ws) : j <= k

\* Run handler h's for loop over list L from iterator position i up to its
\* next await: either the next client.send(...) call, or the end of the loop,
\* after which the handler waits for its next message.
Iterate(h, L, i, m, ctr, b) ==
    /\ connected_clients' = L
    /\ IF Targets(server, L, i, h) # {}
       THEN LET j == NextIndex(server, L, i, h)
                t == L[j]
            IN /\ idx' = [idx EXCEPT ![h] = j]
               /\ client' = [client EXCEPT ![h] = t]
               /\ message' = [message EXCEPT ![h] = m]
               /\ sent' = [sent EXCEPT ![t] =
                     Write(@, open[t],
                           Entry(BroadcastMsg(server, client_id[h], m, ctr), h, b))]
               /\ pc' = [pc EXCEPT ![h] = "send"]
       ELSE /\ idx' = [idx EXCEPT ![h] = 0]
            /\ client' = [client EXCEPT ![h] = 0]
            /\ message' = [message EXCEPT ![h] = m]
            /\ sent' = sent
            /\ pc' = [pc EXCEPT ![h] = "recv"]

\* no client session is modelled next to the servers, and no Calculator
ClientOff ==
    /\ session = "off"
    /\ receive_task = "off"
    /\ send_task = "off"
    /\ cancelled = {}
    /\ ws_open = FALSE
    /\ wire = <<>>
    /\ typed = <<>>
    /\ shown = 0

CalcOff ==
    /\ history = <<>>
    /\ returned = <<>>
    /\ last_call = [op |-> "none", a |-> 0, b |-> 0, raised |-> "none"]
    /\ before = <<>>
    /\ completed = <<>>
    /\ ncalls = 0

ApiOff ==
    /\ users = <<>>
    /\ response = [req |-> "none", status |-> 0, email |-> ""]
    /\ stored_before = <<>>
    /\ nreq = 0

\* the servers' globals as the modules define them, before any connection
ServerOff ==
    /\ connected_clients = <<>>
    /\ counter = 0
    /\ pc = [c \in Conn |-> "idle"]
    /\ client_id = [c \in Conn |-> 0]
    /\ idx = [c \in Conn |-> 0]
    /\ client = [c \in Conn |-> 0]
    /\ message = [c \in Conn |-> ""]
    /\ open = [c \in Conn |-> FALSE]
    /\ exc = [c \in Conn |-> "none"]
    /\ sent = [c \in Conn |-> <<>>]
    /\ nrecv = 0
    /\ bc = [c \in Conn |-> 0]
    /\ snap = [c \in Conn |-> {}]
    /\ failed = [c \in Conn |-> {}]
    /\ newval = [c \in Conn |-> 0]
    /\ incs = [c \in Conn |-> 0]
    /\ resets = 0
    /\ joinval = [c \in Conn |-> 0]
    /\ removed = {}

Init ==
    /\ server \in {"chat", "counter"}
    /\ ServerOff
    /\ ClientOff
    /\ CalcOff
    /\ ApiOff

\* A new connection: the handler starts, registers the websocket, takes the
\* list length as its id and calls the initial send.
Connect(c) ==
    /\ pc[c] = "idle"
    /\ \A d \in Conn : d < c => pc[d] # "idle"
    /\ connected_clients' = Register(connected_clients, c)
    /\ client_id' = [client_id EXCEPT ![c] = Len(connected_clients')]
    /\ open' = [open EXCEPT ![c] = TRUE]
    /\ sent' = [sent EXCEPT ![c] = Greet(@, server, c, client_id'[c], counter)]
    /\ pc' = [pc EXCEPT ![c] = "hello"]
    /\ joinval' = [joinval EXCEPT ![c] = counter]
    /\ removed' = removed
    /\ UNCHANGED <<server, counter, idx, client, message, exc, nrecv, bc, snap,
                   failed, newval, incs, resets>>
    /\ UNCHANGED <<cvars, kvars, uvars>>

\* The peer goes away: the transport of c closes.
Disconnect(c) ==
    /\ pc[c] \in {"hello", "recv", "send"}
    /\ open[c]
    /\ open' = [open EXCEPT ![c] = FALSE]
    /\ UNCHANGED <<server, connected_clients, counter, pc, client_id, idx, client,
                   message, exc, sent, nrecv, bc, snap, failed, newval, incs, resets,
                   removed>>
    /\ UNCHANGED <<joinval, cvars, kvars, uvars>>

\* The initial send resumes.  It returns, or raises ConnectionClosed: the chat
\* handler is inside its try (except, finally), the counter handler is not.
HelloDone(c) ==
    /\ pc[c] = "hello"
    /\ IF open[c]
       THEN /\ pc' = [pc EXCEPT ![c] = "recv"]
            /\ UNCHANGED <<connected_clients, exc, removed>>
       ELSE IF server = "chat"
       THEN /\ connected_clients' = Discard(connected_clients, c)
            /\ removed' = IF Contains(connected_clients, c) THEN removed \cup {c} ELSE removed
            /\ pc' = [pc EXCEPT ![c] = "done"]
            /\ UNCHANGED exc
       ELSE /\ pc' = [pc EXCEPT ![c] = "done"]
            /\ exc' = [exc EXCEPT ![c] = "ConnectionClosed"]
            /\ UNCHANGED <<connected_clients, removed>>
    /\ UNCHANGED <<server, counter, client_id, idx, client, message, open, sent,
                   nrecv, bc, snap, failed, newval, incs, resets>>
    /\ UNCHANGED <<joinval, cvars, kvars, uvars>>

\* `async for message in websocket` yields m; the handler runs up to its next await.
Receive(h, m) ==
    /\ pc[h] = "recv"
    /\ open[h]
    /\ nrecv < MaxMsgs
    /\ m \in (IF server = "chat" THEN Texts ELSE Commands)
    /\ nrecv' = nrecv + 1
    /\ bc' = [bc EXCEPT ![h] = @ + 1]
    /\ snap' = [snap EXCEPT ![h] = Members(connected_clients)]
    /\ failed' = [failed EXCEPT ![h] = {}]
    /\ counter' = IF server = "counter" THEN NewCounter(m, counter) ELSE counter
    /\ newval' = [newval EXCEPT ![h] = counter']
    /\ incs' = [incs EXCEPT ![h] =
          IF server = "counter" /\ Lower(m) = "increment" THEN @ + 1 ELSE @]
    /\ resets' = IF server = "counter" /\ Lower(m) = "reset" THEN resets + 1 ELSE resets
    /\ IF Broadcasts(server, m)
       THEN Iterate(h, connected_clients, 0, m, counter', bc[h] + 1)
       ELSE /\ message' = [message EXCEPT ![h] = m]
            /\ UNCHANGED <<connected_clients, idx, client, sent, pc>>
    /\ UNCHANGED <<server, client_id, open, exc, removed>>
    /\ UNCHANGED <<joinval, cvars, kvars, uvars>>

\* `async for` ends because the connection closed: finally removes the websocket.
EndOfStream(h) ==
    /\ pc[h] = "recv"
    /\ ~open[h]
    /\ connected_clients' = Discard(connected_clients, h)
    /\ removed' = IF Contains(connected_clients, h) THEN removed \cup {h} ELSE removed
    /\ pc' = [pc EXCEPT ![h] = "done"]
    /\ UNCHANGED <<server, counter, client_id, idx, client, message, open, exc,
                   sent, nrecv, bc, snap, failed, newval, incs, resets>>
    /\ UNCHANGED <<joinval, cvars, kvars, uvars>>

\* `await client.send(...)` of the broadcast loop resumes.
SendDone(h) ==
    /\ pc[h] = "send"
    /\ LET t == client[h] IN
       IF open[t]
       THEN \* the send returned: next iteration
            /\ Iterate(h, connected_clients, idx[h], message[h], counter, bc[h])
            /\ UNCHANGED <<failed, exc, open, removed>>
       ELSE IF Contains(connected_clients, t)
       THEN \* except: connected_clients.remove(client), then next iteration
            /\ failed' = [failed EXCEPT ![h] = @ \cup {t}]
            /\ Iterate(h, Remove(connected_clients, t), idx[h], message[h], counter, bc[h])
            /\ removed' = removed \cup {t}
            /\ UNCHANGED <<exc, open>>
       ELSE \* list.remove raises ValueError inside the except clause: it is not
            \* a ConnectionClosed, so only the finally clause runs and the
            \* exception ends the handler task; the server then closes h
            /\ failed' = [failed EXCEPT ![h] = @ \cup {t}]
            /\ connected_clients' = Discard(connected_clients, h)
            /\ removed' = IF Contains(connected_clients, h) THEN removed \cup {h} ELSE removed
            /\ exc' = [exc EXCEPT ![h] = "ValueError"]
            /\ pc' = [pc EXCEPT ![h] = "done"]
            /\ open' = [open EXCEPT ![h] = FALSE]
            /\ UNCHANGED <<idx, client, message, sent>>
    /\ UNCHANGED <<server, counter, client_id, nrecv, bc, snap, newval, incs, resets>>
    /\ UNCHANGED <<joinval, cvars, kvars, uvars>>

Next ==
    \/ \E c \in Conn : Connect(c)
    \/ \E c \in Conn : Disconnect(c)
    \/ \E c \in Conn : HelloDone(c)
    \/ \E h \in Conn : \E m \in Texts \cup Commands : Receive(h, m)
    \/ \E h \in Conn : EndOfStream(h)
    \/ \E h \in Conn : SendDone(h)

Spec == Init /\ [][Next]_vars

\* one program at a time
InitChat == Init /\ server = "chat"
InitCounter == Init /\ server = "counter"
SpecChat == InitChat /\ [][Next]_vars
SpecCounter == InitCounter /\ [][Next]_vars

\* ------------------------------------------------- the client session
\* chat_client() / counter_client() from the moment both tasks exist and the
\* coroutine waits in asyncio.wait(..., return_when=FIRST_COMPLETED).
MaxLines == 2
MaxShown == 1

\* lines the user may type at the prompt
Lines == {"quit", "EXIT", "Bye", "hello"}

Tasks == {"receive", "send"}

\* `message.lower() in ['quit', 'exit', 'bye']` / `command.lower() in ['quit', 'exit']`
QuitWords(srv) == IF srv = "chat" THEN {"quit", "exit", "bye"} ELSE {"quit", "exit"}

IsQuitNever(srv, line) == FALSE
IsQuit(srv, line) == Lower(line) \in QuitWords(srv)

\* `pending` of asyncio.wait: the tasks that have not finished
PendingNone(rt, st) == {}
Pending(rt, st) ==
    {t \in Tasks : (t = "receive" /\ rt # "done") \/ (t = "send" /\ st # "done")}

InitClient ==
    /\ server \in {"chat", "counter"}
    /\ ServerOff
    /\ CalcOff
    /\ ApiOff
    /\ session = "wait"
    /\ receive_task = "waiting"
    /\ send_task = "input"
    /\ cancelled = {}
    /\ ws_open = TRUE
    /\ wire = <<>>
    /\ typed = <<>>
    /\ shown = 0

\* aioconsole.ainput returns a line: a quit word breaks the loop, any other
\* line goes to websocket.send, which raises at once on a closed connection
\* (bare except: pass ends the task).
UserInput(line) ==
    /\ send_task = "input"
    /\ "send" \notin cancelled
    /\ Len(typed) < MaxLines
    /\ typed' = Append(typed, line)
    /\ IF IsQuit(server, line)
       THEN send_task' = "done" /\ wire' = wire
       ELSE IF ws_open
       THEN send_task' = "sending" /\ wire' = Append(wire, line)
       ELSE send_task' = "done" /\ wire' = wire
    /\ UNCHANGED <<session, receive_task, cancelled, ws_open, shown>>
    /\ UNCHANGED <<svars, kvars, uvars>>

\* `await websocket.send(message)` resumes: back to the prompt, or the
\* exception of a closed connection ends the task.
SendReturns ==
    /\ send_task = "sending"
    /\ "send" \notin cancelled
    /\ send_task' = IF ws_open THEN "input" ELSE "done"
    /\ UNCHANGED <<session, receive_task, cancelled, ws_open, wire, typed, shown>>
    /\ UNCHANGED <<svars, kvars, uvars>>

\* `async for message in websocket` yields a message, which is printed.
ServerMessage ==
    /\ receive_task = "waiting"
    /\ "receive" \notin cancelled
    /\ ws_open
    /\ shown < MaxShown
    /\ shown' = shown + 1
    /\ UNCHANGED <<session, receive_task, send_task, cancelled, ws_open, wire, typed>>
    /\ UNCHANGED <<svars, kvars, uvars>>

\* The server or the network closes the connection.
ConnectionLost ==
    /\ ws_open
    /\ session # "done"
    /\ ws_open' = FALSE
    /\ UNCHANGED <<session, receive_task, send_task, cancelled, wire, typed, shown>>
    /\ UNCHANGED <<svars, kvars, uvars>>

\* `async for` ends on the closed connection (normally or through the bare except).
ReceiveEnds ==
    /\ receive_task = "waiting"
    /\ "receive" \notin cancelled
    /\ ~ws_open
    /\ receive_task' = "done"
    /\ UNCHANGED <<session, send_task, cancelled, ws_open, wire, typed, shown>>
    /\ UNCHANGED <<svars, kvars, uvars>>

\* asyncio.wait returns when a task has finished; every pending task is cancelled
\* and the coroutine leaves the `async with` block.
WaitReturns ==
    /\ session = "wait"
    /\ receive_task = "done" \/ send_task = "done"
    /\ cancelled' = Pending(receive_task, send_task)
    /\ session' = "exit"
    /\ UNCHANGED <<receive_task, send_task, ws_open, wire, typed, shown>>
    /\ UNCHANGED <<svars, kvars, uvars>>

\* CancelledError is raised at the await a cancelled task is blocked in; the
\* bare except of the task swallows it and the task finishes.
Cancelled(t) ==
    /\ t \in cancelled
    /\ t \in Pending(receive_task, send_task)
    /\ receive_task' = IF t = "receive" THEN "done" ELSE receive_task
    /\ send_task' = IF t = "send" THEN "done" ELSE send_task
    /\ UNCHANGED <<session, cancelled, ws_open, wire, typed, shown>>
    /\ UNCHANGED <<svars, kvars, uvars>>

\* `async with websockets.connect(...)` exits: the websocket is closed.
CloseSocket ==
    /\ session = "exit"
    /\ ws_open' = FALSE
    /\ session' = "done"
    /\ UNCHANGED <<receive_task, send_task, cancelled, wire, typed, shown>>
    /\ UNCHANGED <<svars, kvars, uvars>>

NextClient ==
    \/ \E line \in Lines : UserInput(line)
    \/ SendReturns
    \/ ServerMessage
    \/ ConnectionLost
    \/ ReceiveEnds
    \/ WaitReturns
    \/ \E t \in Tasks : Cancelled(t)
    \/ CloseSocket

\* The event loop runs every coroutine that is ready; the user and the server
\* are under no obligation to act.
SpecClient ==
    /\ InitClient
    /\ [][NextClient]_vars
    /\ WF_vars(SendReturns)
    /\ WF_vars(ReceiveEnds)
    /\ WF_vars(WaitReturns)
    /\ WF_vars(\E t \in Tasks : Cancelled(t))
    /\ WF_vars(CloseSocket)

\* ------------------------------------------------------ the Calculator
\* pytest/01_basic_concepts/calculator.py: one Calculator object and the
\* calls made on it.
MaxCalls == 3

\* arguments of the calls
Values == {-1, 0, 2}

Abs(v) == IF v < 0 THEN -v ELSE v

RECURSIVE GCD(_, _)
GCD(x, y) == IF y = 0 THEN x ELSE GCD(y, x % y)

\* an int result, and the float a / b of true division (b # 0) as a sign
\* bit and a reduced fraction: 0 / -1 is -0.0
IntVal(v) == [kind |-> "int", neg |-> v < 0, num |-> Abs(v), den |-> 1]

Quot(a, b) ==
    LET g == GCD(Abs(a), Abs(b))
    IN  [kind |-> "float", neg |-> (a < 0) # (b < 0),
         num |-> Abs(a) \div g, den |-> Abs(b) \div g]

\* base ** exponent: an int for a non-negative exponent, a float otherwise
IntPow(base, n) == IF n = 0 THEN 1 ELSE base ^ n

Pow(base, exponent) ==
    IF exponent >= 0
    THEN IntVal(IntPow(base, exponent))
    ELSE Quot(1, IntPow(base, -exponent))

\* the operator sign of the f-string of each method
Sym(op) ==
    CASE op = "add"      -> "+"
      [] op = "subtract" -> "-"
      [] op = "multiply" -> "*"
      [] op = "divide"   -> "/"
      [] op = "power"    -> "^"

\* f"{a} + {b} = {result}"
HistoryEntry(op, a, b, result) == [op |-> Sym(op), a |-> a, b |-> b, result |-> result]

\* self.history.append(...)
HistoryAppendOver(h, e) == <<e>>
HistoryAppend(h, e) == Append(h, e)

\* the exception of divide(a, 0)
DivideErrorUnguarded == "ZeroDivisionError: division by zero"
DivideError == "ValueError: Cannot divide by zero"

InitCalc == InitChat

\* a call that returns: the entry is appended after the result is computed
Returns(op, a, b, result) ==
    /\ ncalls < MaxCalls
    /\ ncalls' = ncalls + 1
    /\ before' = history
    /\ history' = HistoryAppend(history, HistoryEntry(op, a, b, result))
    /\ completed' = Append(completed, [op |-> op, a |-> a, b |-> b])
    /\ last_call' = [op |-> op, a |-> a, b |-> b, raised |-> "none"]
    /\ UNCHANGED returned
    /\ UNCHANGED <<svars, cvars, uvars>>

\* a call that raises before its append
Raises(op, a, b, error) ==
    /\ ncalls < MaxCalls
    /\ ncalls' = ncalls + 1
    /\ before' = history
    /\ last_call' = [op |-> op, a |-> a, b |-> b, raised |-> error]
    /\ UNCHANGED <<history, completed, returned>>
    /\ UNCHANGED <<svars, cvars, uvars>>

add(a, b) ==
    LET result == a + b
    IN  Returns("add", a, b, IntVal(result))

subtract(a, b) ==
    LET result == a - b
    IN  Returns("subtract", a, b, IntVal(result))

multiply(a, b) ==
    LET result == a * b
    IN  Returns("multiply", a, b, IntVal(result))

divide(a, b) ==
    IF b = 0
    THEN Raises("divide", a, b, DivideError)
    ELSE Returns("divide", a, b, Quot(a, b))

power(base, exponent) ==
    IF base = 0 /\ exponent < 0
    THEN Raises("power", base, exponent, "ZeroDivisionError")
    ELSE Returns("power", base, exponent, Pow(base, exponent))

get_history ==
    /\ ncalls < MaxCalls
    /\ ncalls' = ncalls + 1
    /\ before' = history
    /\ returned' = history
    /\ last_call' = [op |-> "get_history", a |-> 0, b |-> 0, raised |-> "none"]
    /\ UNCHANGED <<history, completed>>
    /\ UNCHANGED <<svars, cvars, uvars>>

clear_history ==
    /\ ncalls < MaxCalls
    /\ ncalls' = ncalls + 1
    /\ before' = history
    /\ history' = <<>>
    /\ completed' = <<>>
    /\ last_call' = [op |-> "clear_history", a |-> 0, b |-> 0, raised |-> "none"]
    /\ UNCHANGED returned
    /\ UNCHANGED <<svars, cvars, uvars>>

NextCalc ==
    \/ \E a, b \in Values : add(a, b)
    \/ \E a, b \in Values : subtract(a, b)
    \/ \E a, b \in Values : multiply(a, b)
    \/ \E a, b \in Values : divide(a, b)
    \/ \E a, b \in Values : power(a, b)
    \/ get_history
    \/ clear_history

SpecCalc == InitCalc /\ [][NextCalc]_vars

\* -------------------------------------------------------- the users API
\* fastapi_postgres_backend: POST /users/ and GET /users/ against the table
\* "users", wired as test/conftest.py wires them (one AsyncSession, no
\* exception handler registered on the app).
MaxReqs == 4

\* values of the JSON fields of a request body; "" stands for a missing field
Names == {"", "Test User", "User 1"}
Emails == {"", "test@example.com", "user1@example.com", "user2@example.com"}

\* UserCreate(email: str, name: str): both fields are required
Valid(name, email) == name # "" /\ email # ""

\* Column(String, unique=True): the INSERT violates the unique index
EmailTaken(rows, email) == \E i \in 1..Len(rows) : rows[i].email = email

\* status of the response when db.commit() raises IntegrityError: nothing in
\* create_user, api_create_user or the app catches it
DuplicateStatus == 500

\* db.add(user); await db.commit(): the row gets the next primary key
Insert(rows, name, email) ==
    Append(rows, [id |-> Len(rows) + 1, name |-> name, email |-> email])

InitApi ==
    /\ InitChat
    /\ nreq = 0

\* POST /users/
api_create_user(name, email) ==
    /\ nreq < MaxReqs
    /\ nreq' = nreq + 1
    /\ stored_before' = users
    /\ IF ~Valid(name, email)
       THEN /\ response' = [req |-> "create", status |-> 422, email |-> email]
            /\ users' = users
       ELSE IF EmailTaken(users, email)
       THEN /\ response' = [req |-> "create", status |-> DuplicateStatus, email |-> email]
            /\ users' = users
       ELSE /\ response' = [req |-> "create", status |-> 200, email |-> email]
            /\ users' = Insert(users, name, email)
    /\ UNCHANGED <<svars, cvars, kvars>>

\* GET /users/
api_get_users ==
    /\ nreq < MaxReqs
    /\ nreq' = nreq + 1
    /\ stored_before' = users
    /\ response' = [req |-> "list", status |-> 200, email |-> ""]
    /\ users' = users
    /\ UNCHANGED <<svars, cvars, kvars>>

NextApi ==
    \/ \E name \in Names : \E email \in Emails : api_create_user(name, email)
    \/ api_get_users

SpecApi == InitApi /\ [][NextApi]_vars

TypeOK ==
    /\ server \in {"chat", "counter"}
    /\ counter \in 0..MaxMsgs
    /\ \A c \in Conn : pc[c] \in {"idle", "hello", "recv", "send", "done"}
    /\ \A c \in Conn : exc[c] \in {"none", "ConnectionClosed", "ValueError"}
    /\ Members(connected_clients) \subseteq Conn

\* ------------------------------------------------------ derived notions
RECURSIVE SumTo(_, _)
SumTo(f, n) == IF n = 0 THEN 0 ELSE f[n] + SumTo(f, n - 1)

\* connections to which the broadcast of h's latest message was written
Got(h) ==
    {c \in Conn : \E k \in 1..Len(sent[c]) :
        sent[c][k].from = h /\ sent[c][k].bc = bc[h] /\ bc[h] > 0}

\* h has finished processing its latest message and waits for the next one
Finished(h) == pc[h] = "recv" /\ bc[h] > 0

\* members at receipt that h's loop sends to and that stayed open and registered
\* for the whole broadcast
Lasting(h) ==
    {c \in snap[h] : IsTarget(server, c, h) /\ open[c] /\ Contains(connected_clients, c)}

Registered(c) == Contains(connected_clients, c)

\* connections on which h's loop has called send for h's latest message: the
\* frame was written, or the send raised, or the send is still suspended
Tried(h) ==
    Got(h) \cup failed[h] \cup (IF pc[h] = "send" THEN {client[h]} ELSE {})

\* members at receipt that h's loop is to send to
SnapTargets(h) == {c \in snap[h] : IsTarget(server, c, h)}

\* no handler is inside an initial send or a broadcast
Quiescent == \A h \in Conn : pc[h] \in {"idle", "recv", "done"}

\* ---------------------------------------------------------------- claims

\* C1: chat server: when the handler of A has finished processing a message
\* received from A, every other connection that was registered when the message
\* arrived (and is still open and registered) has been sent 'Client <A's id>: M'.
C1_AllOthersSent ==
    \A h \in Conn :
        (server = "chat" /\ Finished(h)) => Lasting(h) \subseteq Got(h)

\* C2: chat server: a relayed chat message 'Client <id>: <text>' is never sent
\* to the connection the text was received from.
C2_NeverEchoed ==
    \A c \in Conn : \A k \in 1..Len(sent[c]) :
        sent[c][k].msg.kind = "Client" => sent[c][k].from # c

C2_Witness ==
    \E h \in Conn :
        /\ server = "chat"
        /\ Finished(h)
        /\ Cardinality(Got(h)) >= 2
        /\ \A c \in Got(h) :
              \E k \in 1..Len(sent[c]) :
                  sent[c][k].msg = ClientMsg(client_id[h], "hello") /\ sent[c][k].from = h

\* C3: counter server: as long as no 'reset' has been processed, the counter
\* equals the number of 'increment' commands processed, whichever connections
\* sent them and however their handlers interleave.
C3_NoLostIncrement ==
    (server = "counter" /\ resets = 0) => counter = SumTo(incs, MaxConns)

C3_Witness ==
    /\ server = "counter"
    /\ resets = 0
    /\ counter = 2
    /\ \E h, g \in Conn :
          /\ h # g
          /\ incs[h] = 1 /\ incs[g] = 1
          /\ pc[h] = "send" /\ pc[g] = "send"

\* C4: counter server: when a handler has finished processing 'reset', every
\* connection that was registered when the command arrived (and is still open
\* and registered) has been sent 'Counter reset to 0'.
C4_ResetNotifiesAll ==
    \A h \in Conn :
        (server = "counter" /\ Finished(h) /\ Lower(message[h]) = "reset")
            => Lasting(h) \subseteq Got(h)

\* C5: both servers: a target disconnecting while a broadcast is in progress
\* never makes an exception escape the broadcast loop: no handler task is ended
\* by the ValueError of connected_clients.remove(client).
C5_NoEscapeFromBroadcast ==
    \A h \in Conn : exc[h] # "ValueError"

\* C6: both servers: when a send of a broadcast has failed and the handler has
\* finished that broadcast, every other target that is still open (and still
\* registered) has been sent the message.
C6_FailureSkipsNobody ==
    \A h \in Conn :
        (Finished(h) /\ failed[h] # {} /\ Broadcasts(server, message[h]))
            => Lasting(h) \subseteq Got(h)

\* C7: counter server: the first frame sent to a connection is its
\* 'Current counter: <v>'; no 'Counter: ...' or 'Counter reset to 0' broadcast
\* is sent to a registered connection before it.
C7_CurrentBeforeBroadcast ==
    server = "counter" =>
        \A c \in Conn :
            /\ (Registered(c) /\ pc[c] # "idle") => Len(sent[c]) >= 1
            /\ \A k \in 1..Len(sent[c]) :
                  (sent[c][k].msg.kind = "Current counter") <=> (k = 1)

C7_Witness ==
    \E c \in Conn :
        /\ server = "counter"
        /\ pc[c] = "hello"
        /\ Len(sent[c]) >= 2
        /\ sent[c][1].msg.kind = "Current counter"
        /\ sent[c][2].msg.kind = "Counter"

\* C8: counter server: if no connection has failed, no reset was processed and
\* a single connection has sent only 'increment' commands, then every
\* connection registered while the counter was 0 has been sent, after its
\* 'Current counter: 0', exactly 'Counter: 1', 'Counter: 2', ... in that order,
\* up to the counter's value once the sender's broadcast is complete.
C8_Scenario ==
    /\ server = "counter"
    /\ resets = 0
    /\ \A c \in Conn : pc[c] # "idle" => open[c]
    /\ Cardinality({c \in Conn : bc[c] > 0}) <= 1
    /\ \A c \in Conn : incs[c] = bc[c]

C8_InOrder ==
    C8_Scenario =>
        \A c \in Conn :
            (Len(sent[c]) >= 1 /\ sent[c][1].msg = CurrentMsg(0)) =>
                /\ \A k \in 2..Len(sent[c]) : sent[c][k].msg = CounterMsg(k - 1)
                /\ Len(sent[c]) - 1 <= counter
                /\ Len(sent[c]) - 1 >= counter - 1
                /\ (\A h \in Conn : pc[h] # "send") => Len(sent[c]) - 1 = counter

C8_Witness ==
    /\ C8_Scenario
    /\ counter = 2
    /\ \A h \in Conn : pc[h] = "recv"
    /\ \A c \in Conn :
          sent[c] = <<Entry(CurrentMsg(0), c, 0),
                      Entry(CounterMsg(1), 1, 1),
                      Entry(CounterMsg(2), 1, 2)>>

\* C9: counter server: every 'Counter: <v>' sent by the broadcast of an
\* increment carries the value the counter took as a result of that increment.
C9_SameValueToAll ==
    \A h \in Conn : \A c \in Conn : \A k \in 1..Len(sent[c]) :
        (sent[c][k].from = h /\ sent[c][k].bc = bc[h] /\ sent[c][k].msg.kind = "Counter")
            => sent[c][k].msg.v = newval[h]

\* C10: both servers: two simultaneously registered connections never have the
\* same identifier.
C10_UniqueIds ==
    \A c, d \in Conn :
        (c # d /\ Registered(c) /\ Registered(d)) => client_id[c] # client_id[d]

\* C14: both servers: when the read of connection C has failed or ended, only
\* C's session ends: no other session is ended by an exception raised on a
\* target C whose own session ended that way.
ReadEnded(c) ==
    pc[c] = "done" /\ exc[c] = "none" /\ (server = "counter" \/ bc[c] > 0)

C14_OnlyOwnSessionEnds ==
    \A h \in Conn :
        (pc[h] = "done" /\ exc[h] = "ValueError")
            => ~ \E c \in failed[h] \ {h} : ReadEnded(c)

\* C15: both servers: frames caused by messages of one sender are sent to any
\* receiver in the order in which the sender's messages were received.
C15_FifoPerSender ==
    \A c \in Conn : \A i, j \in 1..Len(sent[c]) :
        (i < j /\ sent[c][i].from = sent[c][j].from)
            => sent[c][i].bc <= sent[c][j].bc

C15_Witness ==
    \E c, h \in Conn :
        /\ c # h
        /\ \E i, j \in 1..Len(sent[c]) :
              /\ i < j
              /\ sent[c][i].from = h /\ sent[c][i].bc = 1
              /\ sent[c][j].from = h /\ sent[c][j].bc = 2

\* C16: counter server: a connection that has arrived was sent, as its first
\* frame, 'Current counter: <v>' with v the counter's value when it arrived,
\* and no such frame is ever sent to it by another connection's arrival.
C16_CurrentToNewOnly ==
    server = "counter" =>
        \A c \in Conn :
            /\ pc[c] # "idle" =>
                  /\ Len(sent[c]) >= 1
                  /\ sent[c][1].msg =
                        [kind |-> "Current counter", v |-> joinval[c], text |-> ""]
            /\ \A k \in 1..Len(sent[c]) :
                  (sent[c][k].msg.kind = "Current counter" \/ sent[c][k].bc = 0)
                      => (k = 1 /\ sent[c][k].from = c)

C16_Witness ==
    \E c, d \in Conn :
        /\ server = "counter"
        /\ c # d
        /\ joinval[c] >= 1
        /\ sent[c][1].msg = [kind |-> "Current counter", v |-> joinval[c], text |-> ""]
        /\ pc[d] = "recv" /\ joinval[d] = 0
        /\ \A k \in 1..Len(sent[d]) : sent[d][k].msg.kind = "Current counter" => k = 1

\* C17: chat server: a connection that has arrived was sent, as its first
\* frame, 'Welcome! You are client <id>' with its own id; an arrival sends
\* nothing to any other connection.
C17_WelcomeToNewOnly ==
    server = "chat" =>
        \A c \in Conn :
            /\ pc[c] # "idle" =>
                  /\ Len(sent[c]) >= 1
                  /\ sent[c][1].msg =
                        [kind |-> "Welcome", v |-> client_id[c], text |-> ""]
            /\ \A k \in 1..Len(sent[c]) :
                  (sent[c][k].msg.kind = "Welcome" \/ sent[c][k].bc = 0)
                      => (k = 1 /\ sent[c][k].from = c)

C17_Witness ==
    /\ server = "chat"
    /\ \A c \in Conn : pc[c] = "hello" /\ Len(sent[c]) = 1
    /\ \A c \in Conn : sent[c][1].msg = [kind |-> "Welcome", v |-> c, text |-> ""]

\* C18: counter server: receiving a text that is neither 'increment' nor
\* 'reset' (ignoring case) changes neither the counter nor the registry, sends
\* nothing, leaves the sender connected and its handler waiting for the next
\* message.
C18_UnknownIgnored ==
    [][\A h \in Conn :
          (server = "counter" /\ bc'[h] = bc[h] + 1
             /\ message'[h] \notin {"increment", "INCREMENT", "Increment",
                                    "reset", "RESET", "Reset"})
          => /\ counter' = counter
             /\ connected_clients' = connected_clients
             /\ sent' = sent
             /\ open' = open
             /\ exc' = exc
             /\ pc'[h] = "recv"]_vars

C18_Witness ==
    \E h \in Conn :
        /\ server = "counter"
        /\ message[h] = "status"
        /\ pc[h] = "recv" /\ open[h] /\ Registered(h)
        /\ counter >= 1

\* C11: client session: once the user has entered 'quit', the session
\* terminates and the receive loop ends, also when the peer stays silent.
C11_QuitTerminates ==
    (Len(typed) >= 1 /\ typed[Len(typed)] = "quit")
        ~> (session = "done" /\ receive_task = "done")

C11_Witness ==
    /\ typed = <<"quit">>
    /\ shown = 0
    /\ "receive" \in cancelled
    /\ receive_task = "done"
    /\ session = "done"

\* C12 as stated: in both clients no line equal, ignoring case, to 'quit',
\* 'exit' or 'bye' is ever transmitted.
C12_NoQuitWordOnWire ==
    \A i \in 1..Len(wire) : wire[i] \notin {"quit", "EXIT", "Bye"}

\* C12 amended: the chat client ends its send loop, without transmitting, on
\* 'quit', 'exit' or 'bye' (ignoring case), the counter client on 'quit' or
\* 'exit' only; every other line is written unchanged, in order, to the open
\* websocket, and the loop goes back to the prompt when that send returns.
StopsLoop(line) ==
    \/ line \in {"quit", "EXIT"}
    \/ line = "Bye" /\ server = "chat"

C12_QuitWordsPerClient ==
    /\ \A i \in 1..Len(wire) : wire[i] = typed[i] /\ ~StopsLoop(wire[i])
    /\ Len(typed) - Len(wire) \in {0, 1}
    /\ \A i \in 1..Len(typed) :
          StopsLoop(typed[i]) => (i = Len(typed) /\ i > Len(wire) /\ send_task = "done")
    /\ Len(typed) > Len(wire) =>
          (send_task = "done" /\ (StopsLoop(typed[Len(typed)]) \/ ~ws_open))
    /\ send_task = "input" => Len(wire) = Len(typed)

C12_Witness ==
    /\ server = "counter"
    /\ typed = <<"Bye", "EXIT">>
    /\ wire = <<"Bye">>
    /\ send_task = "done"

\* C13: client session: once either loop has finished the session completes,
\* the other loop is ended by cancellation, and the connection is closed when
\* the session has ended.
C13_FirstCompletedWins ==
    /\ (receive_task = "done" \/ send_task = "done")
          ~> (session = "done" /\ ~ws_open /\ receive_task = "done" /\ send_task = "done")
    /\ [](session = "done" => ~ws_open)
    /\ [](session # "wait" => (receive_task = "done" \/ send_task = "done"))

C13_Witness ==
    /\ typed = <<>>
    /\ "send" \in cancelled
    /\ "receive" \notin cancelled
    /\ receive_task = "done"
    /\ send_task = "done"
    /\ session = "done"
    /\ ~ws_open

\* C19: Calculator.divide(a, 0) raises ValueError('Cannot divide by zero')
\* and leaves the history exactly as it was before the call, whatever calls
\* came before.
C19_DivideByZeroKeepsHistory ==
    (last_call.op = "divide" /\ last_call.b = 0) =>
        /\ last_call.raised = "ValueError: Cannot divide by zero"
        /\ history = before

C19_Witness ==
    /\ last_call.op = "divide"
    /\ last_call.b = 0
    /\ last_call.raised # "none"
    /\ Len(history) = 2
    /\ history[1].op = "/"

\* C20: Calculator: the history holds exactly one entry per operation that has
\* completed successfully since the last clear_history (or since creation), in
\* call order; get_history returns these entries and leaves them alone, and
\* clear_history leaves the history empty.
SignOf(op) ==
    CASE op = "add" -> "+" [] op = "subtract" -> "-" [] op = "multiply" -> "*"
      [] op = "divide" -> "/" [] op = "power" -> "^"

C20_HistoryIsCompletedCalls ==
    /\ Len(history) = Len(completed)
    /\ \A i \in 1..Len(history) :
          /\ history[i].op = SignOf(completed[i].op)
          /\ history[i].a = completed[i].a
          /\ history[i].b = completed[i].b
    /\ last_call.raised # "none" => history = before
    /\ last_call.op = "get_history" => (returned = history /\ history = before)
    /\ last_call.op = "clear_history" => history = <<>>

C20_Witness ==
    /\ ncalls = 3
    /\ Len(history) = 2
    /\ history[1].op = "/"
    /\ history[2].op = "^"
    /\ last_call.op = "get_history"
    /\ returned = history

\* C21: users API: creating a user whose email is already used by a stored
\* user is answered with status 400, and the stored users are unchanged by
\* that request.
C21_DuplicateEmailRejected ==
    (/\ response.req = "create"
     /\ response.email # ""
     /\ response.status # 422
     /\ \E i \in 1..Len(stored_before) : stored_before[i].email = response.email)
        => (response.status = 400 /\ users = stored_before)

\* C22: both servers: the connections a broadcast calls send on are exactly the
\* members of the registry at the instant the broadcast started (without the
\* sender in the chat server): during the broadcast never one more, and once it
\* is complete not one less.
C22_TargetsAreSnapshot ==
    \A h \in Conn :
        (bc[h] > 0 /\ Broadcasts(server, message[h]) /\ pc[h] \in {"send", "recv"}) =>
            /\ Tried(h) \subseteq SnapTargets(h)
            /\ pc[h] = "recv" => Tried(h) = SnapTargets(h)

\* C23: both servers: whenever a connection's handler task has terminated, the
\* registry does not contain that connection.
C23_TerminatedNotRegistered ==
    \A c \in Conn : pc[c] = "done" => ~Registered(c)

\* C24: both servers: a removal of a connection that is absent from the
\* registry raises nothing and changes nothing: when the send to a target fails
\* and the target is already gone from the list, the handler's task is not
\* ended and the list stays as it is.
C24_AbsentRemovalIsNoOp ==
    [][\A h \in Conn :
          (/\ pc[h] = "send"
           /\ ~open[client[h]]
           /\ ~Registered(client[h])
           /\ SendDone(h))
          => /\ exc'[h] = "none"
             /\ pc'[h] # "done"
             /\ connected_clients' = connected_clients]_vars

\* C25: both servers: in every reachable state the registry contains each
\* connection at most once.
C25_NoDuplicates ==
    \A i, j \in 1..Len(connected_clients) :
        i # j => connected_clients[i] # connected_clients[j]

C25_Witness ==
    /\ Len(connected_clients) = 2
    /\ removed # {}
    /\ \E h \in Conn : pc[h] = "send" /\ failed[h] # {}

\* C26: both servers: a connection that has been removed from the registry is
\* never in it again, and no send is called on it by a broadcast from then on.
C26_RemovedStaysOut ==
    /\ [](\A c \in removed : ~Registered(c))
    /\ [][\A c \in removed : \A h \in Conn :
             (pc'[h] = "send" /\ (idx'[h] # idx[h] \/ bc'[h] # bc[h]))
                 => client'[h] # c]_vars
    /\ [][\A c \in removed : sent'[c] = sent[c]]_vars

C26_Witness ==
    \E c, h \in Conn :
        /\ c # h
        /\ c \in removed
        /\ c \in snap[h]
        /\ c \notin failed[h]
        /\ c \notin Got(h)
        /\ Finished(h)
        /\ Got(h) \ {h} # {}

\* C27: counter server: for each connection, the values of the 'Counter: <v>'
\* frames it is sent with no 'Counter reset to 0' between them are strictly
\* increasing.
C27_StrictlyIncreasing ==
    server = "counter" =>
        \A c \in Conn : \A i, j \in 1..Len(sent[c]) :
            (/\ i < j
             /\ sent[c][i].msg.kind = "Counter"
             /\ sent[c][j].msg.kind = "Counter"
             /\ \A k \in (i+1)..(j-1) : sent[c][k].msg.kind # "Counter reset to 0")
                => sent[c][i].msg.v < sent[c][j].msg.v

\* C28: counter server: every 'Counter: <v>' frame ever sent has v >= 1.
C28_CounterFramePositive ==
    \A c \in Conn : \A k \in 1..Len(sent[c]) :
        sent[c][k].msg.kind = "Counter" => sent[c][k].msg.v >= 1

\* C29: counter server: whenever no handler is inside a broadcast or an initial
\* send, the value last reported to each registered open connection equals the
\* counter.
C29_QuiescentAgreement ==
    (server = "counter" /\ Quiescent) =>
        \A c \in Conn :
            (Registered(c) /\ open[c] /\ Len(sent[c]) >= 1)
                => sent[c][Len(sent[c])].msg.v = counter

\* C30: both servers: within one broadcast the message is sent to any given
\* connection at most once.
C30_AtMostOncePerBroadcast ==
    \A c \in Conn : \A i, j \in 1..Len(sent[c]) :
        (/\ sent[c][i].from = sent[c][j].from
         /\ sent[c][i].bc = sent[c][j].bc
         /\ sent[c][i].bc > 0)
            => i = j

C30_Witness ==
    \E h \in Conn :
        /\ Finished(h)
        /\ failed[h] # {}
        /\ Got(h) \ snap[h] # {}

====
